---- MODULE Spec2Model ----
(***************************************************************************)
(* ShareRide: the seat-reservation consistency model.                      *)
(*                                                                         *)
(* The state is the two tables the reservation path touches (rides and     *)
(* ride_reservations, with their constraints and row-level-security        *)
(* policies) plus, for every client session, the position of the hook call *)
(* it is running.  Every await on the database client is one atomic step;  *)
(* the steps of different sessions interleave freely.                      *)
(***************************************************************************)
EXTENDS Integers, Sequences, FiniteSets, TLC

\* ------------------------------------------------------------------ bounds
NumUsers == 3
MaxSeat == 2
MaxRides == 1
MaxInFlight == 2
MaxPresets == 2
NumPlates == 2
MaxFormSeat == 4
MaxFormPresets == 1
MaxFormRides == 1
MaxAuthUsers == 2
MaxHooks == 2
MaxMounts == 2
MaxTasks == 2
MaxDbUsers == 2
MaxDbEvents == 2
MaxDbPresets == 1
MaxDbRides == 2
MaxDbReservations == 2

\* ------------------------------------------------------------ identities
NoUser == 0
Users == 1..NumUsers
\* Session 0 has no auth session; sessions 1..NumUsers belong to the user of
\* the same number; the last session is a second device of user 2.
Sessions == 0..(NumUsers + 1)
\* Users are interchangeable: rides are posted from session 1 (and tried from
\* session 0), which leaves users 2.. as the riders.
DriverSessions == {0, 1}
SeatNumbers == 1..MaxSeat
RideIds == 1..MaxRides
RideStatusInputs == {"active", "cancelled"}

\* rides, reservations: the tables of the reservation path; calls: the hook
\* call each session is running; returned: the last {data, error} a hook
\* returned.  profiles: the profiles table; button: the ReserveSeatButton each
\* session has mounted.  presets, presetCalls: the car_presets table and the
\* useCarPresets call each session is running.
VARIABLES rides, reservations, calls, returned, profiles, button, presets, presetCalls,
          carPresetForm, rideForm, presetSeats, rideSeats,
          authSession, manager, hooks, tasks, guard,
          db, eventCalls, eventReturned

vars == <<rides, reservations, calls, returned, profiles, button, presets, presetCalls,
          carPresetForm, rideForm, presetSeats, rideSeats,
          authSession, manager, hooks, tasks, guard,
          db, eventCalls, eventReturned>>

uiVars == <<profiles, button>>
presetVars == <<presets, presetCalls>>
formVars == <<carPresetForm, rideForm, presetSeats, rideSeats>>
authVars == <<authSession, manager, hooks, tasks, guard>>
cascadeVars == <<db, eventCalls, eventReturned>>
\* The variables of the forms, of the auth manager and of the cascades, which
\* the reservation, preset and button steps leave alone.
laterVars == <<formVars, authVars, cascadeVars>>

\* supabase.auth.getUser(): the user of the session, or none.
GetUser(s) == IF s = 0 THEN NoUser ELSE IF s <= NumUsers THEN s ELSE 2

\* A slot of the rides table that holds no row.
NoRide == [driver_id |-> NoUser, status |-> "none", available_seats |-> {}]

NoUpdates == [kind |-> "none", available_seats |-> {}, status |-> "none", driver_id |-> NoUser]

IdleCall == [pc |-> "idle", op |-> "none", ride_id |-> 0, seat_number |-> 0, driver_id |-> NoUser]

NoReturn == [op |-> "none", err |-> "none", data |-> {}]

InFlight == Cardinality({s \in Sessions : calls[s].pc # "idle"})

ReservationIds == DOMAIN reservations

\* ---------------------------------------------------- row-level security
\* rides, FOR SELECT: "Anyone can view active rides" OR "Drivers can view own rides".
CanSelectRide(u, id) == rides[id] # NoRide /\ (rides[id].status = "active" \/ (u # NoUser /\ rides[id].driver_id = u))

\* Mutant: the policy that shows confirmed rows of active rides is missing.
CanSelectReservationOwnOnly(u, id) ==
    LET row == reservations[id] IN
    \/ u # NoUser /\ row.rider_id = u
    \/ u # NoUser /\ rides[row.ride_id].driver_id = u

\* ride_reservations, FOR SELECT: own rows, rows of rides the user drives,
\* confirmed rows of active rides.
CanSelectReservation(u, id) ==
    LET row == reservations[id] IN
    \/ u # NoUser /\ row.rider_id = u
    \/ u # NoUser /\ rides[row.ride_id].driver_id = u
    \/ row.status = "confirmed" /\ rides[row.ride_id].status = "active"

\* ride_reservations, FOR UPDATE USING (auth.uid() = rider_id).
CanUpdateReservation(u, id) == u # NoUser /\ reservations[id].rider_id = u

\* rides, FOR UPDATE USING (auth.uid() = driver_id); with no WITH CHECK the
\* same expression is applied to the new row.
CanUpdateRide(u, row) == u # NoUser /\ row.driver_id = u

\* ------------------------------------------------------------- messages
SeatTakenMsg(n) == "Seat " \o ToString(n) \o " is already reserved"
SeatNotOfferedMsg(n) == "Seat " \o ToString(n) \o " is not available for this ride"
AlreadyReservedMsg == "You already have a reservation on this ride"
OwnRideMsg == "You cannot reserve a seat on your own ride"
RideGoneMsg == "Ride not found or no longer accepting reservations"
LoginToReserveMsg == "You must be logged in to reserve a seat"
LoginToCancelMsg == "You must be logged in to cancel a reservation."
SeatKey == "ride_reservations_ride_id_seat_number_key"
RiderKey == "ride_reservations_ride_id_rider_id_key"
DuplicateKeyMsg(key) == "duplicate key value violates unique constraint " \o key

\* ----------------------------------------------------- profiles and button
\* A column that holds NULL.
Null == "<null>"

\* The profile the sign-up trigger inserts: the id alone, phone_verified FALSE.
NewProfile == [legal_first_name |-> Null, legal_last_name |-> Null,
               phone_verified |-> FALSE, profile_picture_url |-> Null]

\* The sessions that open a ride page with the ReserveSeatButton.
ButtonSessions == {2}

\* No button is mounted.
NoButton == [ride_id |-> 0, available_seats |-> {}, reserved |-> {}, isDriver |-> FALSE,
             canRide |-> "null", selectedSeat |-> 0]

\* ---------------------------------------------------------- car presets
PresetIds == 1..MaxPresets
Plates == 1..NumPlates
IdlePresetCall == [pc |-> "idle", id |-> 0]

\* ------------------------------------------------------------- seat forms
\* The largest seat number validateSeatConfiguration accepts.
MaxSeatNumber == 20

\* Total seats (driver included) of the car models on offer: a Corvette has 2,
\* a Mustang 4.
ModelSeatCounts == {2, 4}

\* AVAILABLE_SEAT_NUMBERS, the checkboxes of RideForm (2..15 in the source).
FormSeatNumbers == 2..MaxFormSeat

\* CarPresetForm and RideForm when they are not on screen. A seat list is a
\* sequence; the empty sequence also stands for a NULL default_available_seats.
ClosedPresetForm == [open |-> FALSE, editing |-> 0, totalSeats |-> 0, selectedSeats |-> <<>>]
ClosedRideForm == [open |-> FALSE, carPresets |-> <<>>, car_preset_id |-> 0,
                   selectedSeats |-> <<>>, available_seats |-> <<>>]

FormIdle ==
    /\ carPresetForm = ClosedPresetForm
    /\ rideForm = ClosedRideForm
    /\ presetSeats = <<>>
    /\ rideSeats = <<>>

\* ------------------------------------------------------------------- auth
AuthUsers == 1..MaxAuthUsers

\* The useAuth instances on the page; the first one is RouteGuard's.
HookIds == 1..MaxHooks
GuardHooks == {1}

\* A null profile; the profile row of user u is written u (its id).
NoProfile == 0

\* The AuthManager singleton as constructed: no subscription, no callback, no
\* user, loading, and initialize() waiting for getSession. invoked holds the
\* callbacks the latest step called.
NewManager == [init |-> "getSession", initUser |-> NoUser, subscription |-> 0,
               callbacks |-> {}, invoked |-> {},
               currentUser |-> NoUser, currentProfile |-> NoProfile,
               isLoading |-> TRUE, error |-> "none"]

\* A useAuth instance before its effect ran: the useState defaults. call is
\* the auth call it is awaiting; mounts counts its effect runs, and its n-th
\* effect run registers the callback <<instance, n>>.
NewHook == [mounted |-> FALSE, mounts |-> 0, user |-> NoUser, profile |-> NoProfile,
            loading |-> TRUE, error |-> "none", call |-> "none"]

\* A RouteGuard that is not rendered.
NoGuard == [output |-> "none", showLoading |-> TRUE, deps |-> <<NoUser, TRUE>>,
            redirected |-> FALSE]

AuthIdle ==
    /\ authSession = NoUser
    /\ manager = NewManager
    /\ hooks = [i \in HookIds |-> NewHook]
    /\ tasks = {}
    /\ guard = [i \in GuardHooks |-> NoGuard]

\* ------------------------------------------------------------- cascades
\* The users of the tables with foreign keys; session u holds the token of
\* user u.
DbUsers == 1..MaxDbUsers

\* The tables as created by the migrations: every user has a profile, the
\* other tables are empty. A table is a sequence of rows, a row's id is its
\* place, and a deleted row stays as a mark so that no id is used twice.
NewDb == [profiles |-> [u \in DbUsers |-> TRUE], events |-> <<>>, car_presets |-> <<>>,
          rides |-> <<>>, ride_reservations |-> <<>>]

IdleEventCall == [pc |-> "idle", id |-> 0]
NoEventReturn == [op |-> "none", err |-> "none", id |-> 0]

CascadeIdle ==
    /\ db = NewDb
    /\ eventCalls = [s \in DbUsers |-> IdleEventCall]
    /\ eventReturned = NoEventReturn

Init ==
    /\ rides = [id \in RideIds |-> NoRide]
    /\ reservations = <<>>
    /\ calls = [s \in Sessions |-> IdleCall]
    /\ returned = NoReturn
    /\ profiles = [u \in Users |-> NewProfile]
    /\ button = [s \in ButtonSessions |-> NoButton]
    /\ presets = <<>>
    /\ presetCalls = [s \in Sessions |-> IdlePresetCall]
    /\ FormIdle /\ AuthIdle /\ CascadeIdle

\* The call of session s ends: the hook returns {data, error}.
Return(s, op, err, data) ==
    /\ calls' = [calls EXCEPT ![s] = IdleCall]
    /\ returned' = [op |-> op, err |-> err, data |-> data]

\* ------------------------------------------------------------ createRide
CreateRide(s, seats) ==
    /\ calls[s].pc = "idle"
    /\ \E id \in RideIds : rides[id] = NoRide
    /\ LET user == GetUser(s)
           id == CHOOSE i \in RideIds : rides[i] = NoRide /\ \A j \in RideIds : rides[j] = NoRide => i <= j
       IN IF user = NoUser
          THEN /\ Return(s, "createRide", "You must be logged in to create a ride", {})
               /\ UNCHANGED <<rides, reservations>>
          ELSE /\ rides' = [rides EXCEPT ![id] = [driver_id |-> user, status |-> "active", available_seats |-> seats]]
               /\ Return(s, "createRide", "none", {id})
               /\ UNCHANGED reservations

\* ----------------------------------------------- ride_reservations keys
\* Mutant: the table has no UNIQUE(ride_id, seat_number).
SeatKeyNotEnforced(rideId, seat) == FALSE

\* Mutant: the seat key is a partial index over confirmed rows.
SeatKeyConfirmedOnly(rideId, seat) ==
    \E id \in ReservationIds : /\ reservations[id].ride_id = rideId
                                /\ reservations[id].seat_number = seat
                                /\ reservations[id].status = "confirmed"

\* UNIQUE(ride_id, seat_number): a row of any status holds the key.
SeatKeyTaken(rideId, seat) ==
    \E id \in ReservationIds : reservations[id].ride_id = rideId /\ reservations[id].seat_number = seat

\* Mutant: the table has no UNIQUE(ride_id, rider_id).
RiderKeyNotEnforced(rideId, rider) == FALSE

\* UNIQUE(ride_id, rider_id): a row of any status holds the key.
RiderKeyTaken(rideId, rider) ==
    \E id \in ReservationIds : reservations[id].ride_id = rideId /\ reservations[id].rider_id = rider

\* The constraint an insert of (rideId, rider, seat) violates; the indexes
\* are checked in the order the table declares them.
UniqueViolation(rideId, rider, seat) ==
    IF SeatKeyTaken(rideId, seat) THEN SeatKey
    ELSE IF RiderKeyTaken(rideId, rider) THEN RiderKey
    ELSE "none"

\* The message createReservation throws for a 23505 insert error.  The error's
\* message names the violated constraint; its details ("Key (ride_id,
\* seat_number)=(..) already exists.") are present or absent as the database
\* decides, and the code matches on the column names in them.
CreateErrorMessage(key, hasDetails, seat) ==
    IF hasDetails /\ key = SeatKey THEN SeatTakenMsg(seat)
    ELSE IF hasDetails /\ key = RiderKey THEN AlreadyReservedMsg
    ELSE DuplicateKeyMsg(key)

\* Mutant: the read does not filter on status.
ConfirmedViewAnyStatus(u, rideId) ==
    {id \in ReservationIds : CanSelectReservation(u, id) /\ reservations[id].ride_id = rideId}

\* The confirmed rows of a ride that user u may read:
\* .eq("ride_id", rideId).eq("status", "confirmed") under row-level security.
ConfirmedView(u, rideId) ==
    {id \in ReservationIds : /\ CanSelectReservation(u, id)
                             /\ reservations[id].ride_id = rideId
                             /\ reservations[id].status = "confirmed"}

\* ------------------------------------------------------ createReservation
\* getUser, the ride fetch (active rides only) and the available_seats test.
ReserveStart(s, rideId, seat) ==
    /\ calls[s].pc = "idle"
    /\ UNCHANGED <<rides, reservations>>
    /\ LET user == GetUser(s) IN
       IF user = NoUser THEN Return(s, "createReservation", LoginToReserveMsg, {})
       ELSE IF ~(CanSelectRide(user, rideId) /\ rides[rideId].status = "active")
       THEN Return(s, "createReservation", RideGoneMsg, {})
       ELSE IF seat \notin rides[rideId].available_seats
       THEN Return(s, "createReservation", SeatNotOfferedMsg(seat), {})
       ELSE /\ InFlight < MaxInFlight
            /\ calls' = [calls EXCEPT ![s] = [pc |-> "checkSeat", op |-> "createReservation",
                                              ride_id |-> rideId, seat_number |-> seat,
                                              driver_id |-> rides[rideId].driver_id]]
            /\ UNCHANGED returned

\* Mutant: the driver test runs before the seat pre-check.
ReserveCheckSeatDriverFirst(s) ==
    /\ calls[s].pc = "checkSeat"
    /\ UNCHANGED <<rides, reservations>>
    /\ LET c == calls[s]
           existing == {id \in ConfirmedView(GetUser(s), c.ride_id) : reservations[id].seat_number = c.seat_number}
       IN IF c.driver_id = GetUser(s) THEN Return(s, "createReservation", OwnRideMsg, {})
          ELSE IF Cardinality(existing) = 1
          THEN Return(s, "createReservation", SeatTakenMsg(c.seat_number), {})
          ELSE /\ calls' = [calls EXCEPT ![s].pc = "checkUser"]
               /\ UNCHANGED returned

\* Step 3: a confirmed row for the seat; .single() yields a row only when
\* exactly one matches.
ReserveCheckSeat(s) ==
    /\ calls[s].pc = "checkSeat"
    /\ UNCHANGED <<rides, reservations>>
    /\ LET c == calls[s]
           existing == {id \in ConfirmedView(GetUser(s), c.ride_id) : reservations[id].seat_number = c.seat_number}
       IN IF Cardinality(existing) = 1
          THEN Return(s, "createReservation", SeatTakenMsg(c.seat_number), {})
          ELSE /\ calls' = [calls EXCEPT ![s].pc = "checkUser"]
               /\ UNCHANGED returned

\* Mutant: step 5, the driver test, is missing.
ReserveCheckUserNoDriverTest(s) ==
    /\ calls[s].pc = "checkUser"
    /\ UNCHANGED <<rides, reservations>>
    /\ LET c == calls[s]
           user == GetUser(s)
           mine == {id \in ConfirmedView(user, c.ride_id) : reservations[id].rider_id = user}
       IN IF Cardinality(mine) = 1 THEN Return(s, "createReservation", AlreadyReservedMsg, {})
          ELSE /\ calls' = [calls EXCEPT ![s].pc = "insert"]
               /\ UNCHANGED returned

\* Steps 4 and 5: a confirmed row of the caller on the ride, then the driver test.
ReserveCheckUser(s) ==
    /\ calls[s].pc = "checkUser"
    /\ UNCHANGED <<rides, reservations>>
    /\ LET c == calls[s]
           user == GetUser(s)
           mine == {id \in ConfirmedView(user, c.ride_id) : reservations[id].rider_id = user}
       IN IF Cardinality(mine) = 1 THEN Return(s, "createReservation", AlreadyReservedMsg, {})
          ELSE IF c.driver_id = user THEN Return(s, "createReservation", OwnRideMsg, {})
          ELSE /\ calls' = [calls EXCEPT ![s].pc = "insert"]
               /\ UNCHANGED returned

\* Mutant: the statement is an upsert on the seat key: a row that holds the
\* seat is overwritten.
ReserveInsertUpsert(s) ==
    /\ calls[s].pc = "insert"
    /\ UNCHANGED rides
    /\ LET c == calls[s]
           user == GetUser(s)
           row == [ride_id |-> c.ride_id, rider_id |-> user, seat_number |-> c.seat_number, status |-> "confirmed"]
           held == {id \in ReservationIds : reservations[id].ride_id = c.ride_id /\ reservations[id].seat_number = c.seat_number}
       IN IF held # {}
          THEN /\ reservations' = [i \in ReservationIds |-> IF i \in held THEN row ELSE reservations[i]]
               /\ Return(s, "createReservation", "none", held)
          ELSE IF RiderKeyTaken(c.ride_id, user)
          THEN /\ \E hasDetails \in BOOLEAN : Return(s, "createReservation", CreateErrorMessage(RiderKey, hasDetails, c.seat_number), {})
               /\ UNCHANGED reservations
          ELSE /\ reservations' = Append(reservations, row)
               /\ Return(s, "createReservation", "none", {Len(reservations) + 1})

\* Step 6: the insert, under the two UNIQUE constraints.
ReserveInsert(s) ==
    /\ calls[s].pc = "insert"
    /\ UNCHANGED rides
    /\ LET c == calls[s]
           user == GetUser(s)
           key == UniqueViolation(c.ride_id, user, c.seat_number)
       IN IF key # "none"
          THEN /\ \E hasDetails \in BOOLEAN : Return(s, "createReservation", CreateErrorMessage(key, hasDetails, c.seat_number), {})
               /\ UNCHANGED reservations
          ELSE /\ reservations' = Append(reservations, [ride_id |-> c.ride_id, rider_id |-> user,
                                                        seat_number |-> c.seat_number, status |-> "confirmed"])
               /\ Return(s, "createReservation", "none", {Len(reservations) + 1})

\* Mutant: the update matches the id alone, whoever the rider is.
CancelReservationAnyRider(s, id) ==
    /\ calls[s].pc = "idle"
    /\ UNCHANGED rides
    /\ LET user == GetUser(s) IN
       IF user = NoUser
       THEN /\ Return(s, "cancelReservation", LoginToCancelMsg, {})
            /\ UNCHANGED reservations
       ELSE /\ reservations' = [i \in ReservationIds |->
                                  IF i = id THEN [reservations[i] EXCEPT !.status = "cancelled"]
                                  ELSE reservations[i]]
            /\ Return(s, "cancelReservation", "none", {})

\* Mutant: the update flips the status, so cancelling twice confirms again.
CancelReservationToggle(s, id) ==
    /\ calls[s].pc = "idle"
    /\ UNCHANGED rides
    /\ LET user == GetUser(s) IN
       IF user = NoUser
       THEN /\ Return(s, "cancelReservation", LoginToCancelMsg, {})
            /\ UNCHANGED reservations
       ELSE /\ reservations' = [i \in ReservationIds |->
                                  IF i = id /\ reservations[i].rider_id = user /\ CanUpdateReservation(user, i)
                                  THEN [reservations[i] EXCEPT !.status = IF @ = "cancelled" THEN "confirmed" ELSE "cancelled"]
                                  ELSE reservations[i]]
            /\ Return(s, "cancelReservation", "none", {})

\* ------------------------------------------------------ cancelReservation
\* id 0 stands for an id that names no row.
CancelReservation(s, id) ==
    /\ calls[s].pc = "idle"
    /\ UNCHANGED rides
    /\ LET user == GetUser(s) IN
       IF user = NoUser
       THEN /\ Return(s, "cancelReservation", LoginToCancelMsg, {})
            /\ UNCHANGED reservations
       ELSE /\ reservations' = [i \in ReservationIds |->
                                  IF i = id /\ reservations[i].rider_id = user /\ CanUpdateReservation(user, i)
                                  THEN [reservations[i] EXCEPT !.status = "cancelled"]
                                  ELSE reservations[i]]
            /\ Return(s, "cancelReservation", "none", {})

\* ------------------------------------------------------------------ reads
FetchReservationsForRide(s, rideId) ==
    /\ calls[s].pc = "idle"
    /\ UNCHANGED <<rides, reservations>>
    /\ Return(s, "fetchReservationsForRide", "none", ConfirmedView(GetUser(s), rideId))

\* Mutant: the reservations query of fetchRide has no status filter.
FetchRideAnyStatus(s, rideId) ==
    /\ calls[s].pc = "idle"
    /\ UNCHANGED <<rides, reservations>>
    /\ IF CanSelectRide(GetUser(s), rideId)
       THEN Return(s, "fetchRide", "none", ConfirmedViewAnyStatus(GetUser(s), rideId))
       ELSE Return(s, "fetchRide", "PGRST116", {})

\* The ride row, then its confirmed reservation rows, into currentRide.
FetchRide(s, rideId) ==
    /\ calls[s].pc = "idle"
    /\ UNCHANGED <<rides, reservations>>
    /\ IF CanSelectRide(GetUser(s), rideId)
       THEN Return(s, "fetchRide", "none", ConfirmedView(GetUser(s), rideId))
       ELSE Return(s, "fetchRide", "PGRST116", {})

\* -------------------------------------------------------------- updateRide
RideUpdates ==
    {[NoUpdates EXCEPT !.kind = "available_seats", !.available_seats = seats] : seats \in SUBSET SeatNumbers}
    \cup {[NoUpdates EXCEPT !.kind = "status", !.status = st] : st \in RideStatusInputs}
    \cup {[NoUpdates EXCEPT !.kind = "driver_id", !.driver_id = u] : u \in Users}

ApplyUpdates(row, updates) ==
    IF updates.kind = "available_seats" THEN [row EXCEPT !.available_seats = updates.available_seats]
    ELSE IF updates.kind = "status" THEN [row EXCEPT !.status = updates.status]
    ELSE IF updates.kind = "driver_id" THEN [row EXCEPT !.driver_id = updates.driver_id]
    ELSE row

\* Mutant: the hooks leave the ownership test to the update policy.
OwnerCheckNoDriverTest(s, op, rideId, loginMsg, notOwnerMsg) ==
    /\ calls[s].pc = "idle"
    /\ UNCHANGED <<rides, reservations>>
    /\ LET user == GetUser(s) IN
       IF user = NoUser THEN Return(s, op, loginMsg, {})
       ELSE IF ~CanSelectRide(user, rideId) THEN Return(s, op, "Ride not found", {})
       ELSE /\ InFlight < MaxInFlight
            /\ calls' = [calls EXCEPT ![s] = [pc |-> "update", op |-> op, ride_id |-> rideId, seat_number |-> 0,
                                              driver_id |-> rides[rideId].driver_id]]
            /\ UNCHANGED returned

\* getUser and the driver_id pre-check of updateRide (op "updateRide") and
\* cancelRide (op "cancelRide").
OwnerCheck(s, op, rideId, loginMsg, notOwnerMsg) ==
    /\ calls[s].pc = "idle"
    /\ UNCHANGED <<rides, reservations>>
    /\ LET user == GetUser(s) IN
       IF user = NoUser THEN Return(s, op, loginMsg, {})
       ELSE IF ~CanSelectRide(user, rideId) THEN Return(s, op, "Ride not found", {})
       ELSE IF rides[rideId].driver_id # user THEN Return(s, op, notOwnerMsg, {})
       ELSE /\ InFlight < MaxInFlight
            /\ calls' = [calls EXCEPT ![s] = [pc |-> "update", op |-> op, ride_id |-> rideId, seat_number |-> 0,
                                              driver_id |-> rides[rideId].driver_id]]
            /\ UNCHANGED returned

\* The updates argument is read by the update statement alone, so it is drawn
\* at that step.
UpdateRideStart(s, rideId) ==
    OwnerCheck(s, "updateRide", rideId,
               "You must be logged in to update a ride", "You can only update rides you are driving")

\* .update(updates).eq("id", id).select().single()
UpdateRideApply(s, updates) ==
    /\ calls[s].pc = "update"
    /\ calls[s].op = "updateRide"
    /\ UNCHANGED reservations
    /\ LET c == calls[s]
           user == GetUser(s)
           new == ApplyUpdates(rides[c.ride_id], updates)
       IN IF ~CanUpdateRide(user, rides[c.ride_id])
          THEN /\ Return(s, "updateRide", "PGRST116", {})
               /\ UNCHANGED rides
          ELSE IF ~CanUpdateRide(user, new)
          THEN /\ Return(s, "updateRide", "new row violates row-level security policy", {})
               /\ UNCHANGED rides
          ELSE /\ rides' = [rides EXCEPT ![c.ride_id] = new]
               /\ Return(s, "updateRide", "none", {c.ride_id})

\* -------------------------------------------------------------- cancelRide
CancelRideStart(s, rideId) ==
    OwnerCheck(s, "cancelRide", rideId,
               "You must be logged in to cancel a ride", "You can only cancel rides you are driving")

\* .update({ status: "cancelled" }).eq("id", id)
CancelRideApply(s) ==
    /\ calls[s].pc = "update"
    /\ calls[s].op = "cancelRide"
    /\ UNCHANGED reservations
    /\ LET c == calls[s] IN
       /\ rides' = [rides EXCEPT ![c.ride_id] =
                      IF CanUpdateRide(GetUser(s), @) THEN [@ EXCEPT !.status = "cancelled"] ELSE @]
       /\ Return(s, "cancelRide", "none", {})

\* ------------------------------------------------- availability derivation
\* RideDetailPage.getAvailableSeatCount over currentRide = the ride row with
\* the reservation rows fetchRide stored.
GetAvailableSeatCount(currentRide) ==
    Cardinality(currentRide.available_seats) - Cardinality(currentRide.reservations)

\* My rides page: the count query of a ride, confirmed rows under the policies.
ReservationCount(u, rideId) == Cardinality(ConfirmedView(u, rideId))

\* My rides page, getAvailableSeats.
GetAvailableSeats(ride) ==
    IF ride.role # "driver" THEN 0 ELSE Cardinality(ride.available_seats) - ride.reservationCount

\* isSeatAvailable of seatConfig.
IsSeatAvailable(seatNumber, availableSeats) == seatNumber \in availableSeats

\* SeatList.seatStatuses: one entry per seat of availableSeats; the lookup map
\* holds the confirmed rows of the input by seat number.
SeatStatuses(availableSeats, input) ==
    LET reservationsBySeat == {id \in input : reservations[id].status = "confirmed"} IN
    [seatNumber \in availableSeats |->
        [isAvailable |-> IsSeatAvailable(seatNumber, availableSeats),
         isOccupied |-> \E id \in reservationsBySeat : reservations[id].seat_number = seatNumber]]

Next ==
    \/ \E s \in DriverSessions, seats \in SUBSET SeatNumbers : CreateRide(s, seats) /\ UNCHANGED <<laterVars, uiVars, presetVars>>
    \/ \E s \in Sessions, rideId \in RideIds, seat \in SeatNumbers : ReserveStart(s, rideId, seat) /\ UNCHANGED <<laterVars, uiVars, presetVars>>
    \/ \E s \in Sessions : ReserveCheckSeat(s) /\ UNCHANGED <<laterVars, uiVars, presetVars>>
    \/ \E s \in Sessions : ReserveCheckUser(s) /\ UNCHANGED <<laterVars, uiVars, presetVars>>
    \/ \E s \in Sessions : ReserveInsert(s) /\ UNCHANGED <<laterVars, uiVars, presetVars>>
    \/ \E s \in Sessions, id \in ReservationIds \cup {0} : CancelReservation(s, id) /\ UNCHANGED <<laterVars, uiVars, presetVars>>
    \/ \E s \in Sessions, rideId \in RideIds : FetchReservationsForRide(s, rideId) /\ UNCHANGED <<laterVars, uiVars, presetVars>>
    \/ \E s \in Sessions, rideId \in RideIds : FetchRide(s, rideId) /\ UNCHANGED <<laterVars, uiVars, presetVars>>
    \/ \E s \in Sessions, rideId \in RideIds : UpdateRideStart(s, rideId) /\ UNCHANGED <<laterVars, uiVars, presetVars>>
    \/ \E s \in Sessions, updates \in RideUpdates : UpdateRideApply(s, updates) /\ UNCHANGED <<laterVars, uiVars, presetVars>>
    \/ \E s \in Sessions, rideId \in RideIds : CancelRideStart(s, rideId) /\ UNCHANGED <<laterVars, uiVars, presetVars>>
    \/ \E s \in Sessions : CancelRideApply(s) /\ UNCHANGED <<laterVars, uiVars, presetVars>>

Spec == Init /\ [][Next]_vars

\* ============================================================ car presets
\* car_presets holds rows [user_id, license_plate, deleted]; a row's id is its
\* index, and a deleted row keeps its index so that no id is given out twice.
DuplicatePlateMsg == "A car preset with this license plate already exists. Please use a different license plate."
PresetGoneMsg == "Car preset not found"

PresetInFlight == Cardinality({s \in Sessions : presetCalls[s].pc # "idle"})

LivePresets == {id \in DOMAIN presets : ~presets[id].deleted}

\* car_presets, FOR SELECT / UPDATE / DELETE USING (auth.uid() = user_id).
CanSelectPreset(u, id) == id \in LivePresets /\ u # NoUser /\ presets[id].user_id = u

\* Mutant: the table has no UNIQUE(user_id, license_plate).
PlateKeyNotEnforced(userId, plate, self) == FALSE

\* UNIQUE(user_id, license_plate) against every row but the one being written.
PlateKeyTaken(userId, plate, self) ==
    \E id \in LivePresets \ {self} : presets[id].user_id = userId /\ presets[id].license_plate = plate

PresetInit ==
    /\ presets = <<>>
    /\ presetCalls = [s \in Sessions |-> IdlePresetCall]
    /\ rides = [id \in RideIds |-> NoRide]
    /\ reservations = <<>>
    /\ calls = [s \in Sessions |-> IdleCall]
    /\ returned = NoReturn
    /\ profiles = [u \in Users |-> NewProfile]
    /\ button = [s \in ButtonSessions |-> NoButton]
    /\ FormIdle /\ AuthIdle /\ CascadeIdle

\* createCarPreset: getUser, then the insert with user_id = the caller.
CreateCarPreset(s, plate) ==
    /\ presetCalls[s].pc = "idle"
    /\ UNCHANGED <<laterVars, rides, reservations, uiVars, presetCalls>>
    /\ LET user == GetUser(s) IN
       IF user = NoUser
       THEN /\ Return(s, "createCarPreset", "You must be logged in to create a car preset", {})
            /\ UNCHANGED presets
       ELSE IF PlateKeyTaken(user, plate, 0)
       THEN /\ Return(s, "createCarPreset", DuplicatePlateMsg, {})
            /\ UNCHANGED presets
       ELSE /\ Len(presets) < MaxPresets
            /\ presets' = Append(presets, [user_id |-> user, license_plate |-> plate, deleted |-> FALSE])
            /\ Return(s, "createCarPreset", "none", {Len(presets) + 1})

\* getUser and the user_id pre-check of updateCarPreset and deleteCarPreset;
\* the pre-check reads the row under the SELECT policy.
PresetOwnerCheck(s, op, pc, id, loginMsg, notOwnerMsg) ==
    /\ presetCalls[s].pc = "idle"
    /\ UNCHANGED <<laterVars, rides, reservations, uiVars, presets>>
    /\ LET user == GetUser(s) IN
       IF user = NoUser
       THEN Return(s, op, loginMsg, {}) /\ UNCHANGED presetCalls
       ELSE IF ~CanSelectPreset(user, id)
       THEN Return(s, op, PresetGoneMsg, {}) /\ UNCHANGED presetCalls
       ELSE IF presets[id].user_id # user
       THEN Return(s, op, notOwnerMsg, {}) /\ UNCHANGED presetCalls
       ELSE /\ PresetInFlight < MaxInFlight
            /\ presetCalls' = [presetCalls EXCEPT ![s] = [pc |-> pc, id |-> id]]
            /\ UNCHANGED <<calls, returned>>

UpdateCarPresetStart(s, id) ==
    PresetOwnerCheck(s, "updateCarPreset", "update", id,
                     "You must be logged in to update a car preset", "You can only update car presets you own")

\* The updates argument: a new plate, a new owner, or columns outside the key.
PresetUpdates ==
    {[kind |-> "license_plate", license_plate |-> p, user_id |-> NoUser] : p \in Plates}
    \cup {[kind |-> "user_id", license_plate |-> 0, user_id |-> u] : u \in Users}
    \cup {[kind |-> "color", license_plate |-> 0, user_id |-> NoUser]}

ApplyPresetUpdates(row, updates) ==
    IF updates.kind = "license_plate" THEN [row EXCEPT !.license_plate = updates.license_plate]
    ELSE IF updates.kind = "user_id" THEN [row EXCEPT !.user_id = updates.user_id]
    ELSE row

\* .update(updates).eq("id", id).select().single(): the UPDATE policy on the
\* old and the new row, then the unique key.
UpdateCarPresetApply(s, updates) ==
    /\ presetCalls[s].pc = "update"
    /\ UNCHANGED <<laterVars, rides, reservations, uiVars>>
    /\ presetCalls' = [presetCalls EXCEPT ![s] = IdlePresetCall]
    /\ LET id == presetCalls[s].id
           user == GetUser(s)
       IN IF ~CanSelectPreset(user, id)
          THEN /\ Return(s, "updateCarPreset", "PGRST116", {})
               /\ UNCHANGED presets
          ELSE LET new == ApplyPresetUpdates(presets[id], updates) IN
               IF new.user_id # user
               THEN /\ Return(s, "updateCarPreset", "new row violates row-level security policy", {})
                    /\ UNCHANGED presets
               ELSE IF PlateKeyTaken(new.user_id, new.license_plate, id)
               THEN /\ Return(s, "updateCarPreset", DuplicatePlateMsg, {})
                    /\ UNCHANGED presets
               ELSE /\ presets' = [presets EXCEPT ![id] = new]
                    /\ Return(s, "updateCarPreset", "none", {id})

DeleteCarPresetStart(s, id) ==
    PresetOwnerCheck(s, "deleteCarPreset", "delete", id,
                     "You must be logged in to delete a car preset", "You can only delete car presets you own")

\* .delete().eq("id", id) under the DELETE policy.
DeleteCarPresetApply(s) ==
    /\ presetCalls[s].pc = "delete"
    /\ UNCHANGED <<laterVars, rides, reservations, uiVars>>
    /\ presetCalls' = [presetCalls EXCEPT ![s] = IdlePresetCall]
    /\ LET id == presetCalls[s].id IN
       /\ presets' = IF CanSelectPreset(GetUser(s), id) THEN [presets EXCEPT ![id].deleted = TRUE] ELSE presets
       /\ Return(s, "deleteCarPreset", "none", {})

PresetNext ==
    \/ \E s \in Sessions, plate \in Plates : CreateCarPreset(s, plate)
    \/ \E s \in Sessions, id \in PresetIds : UpdateCarPresetStart(s, id)
    \/ \E s \in Sessions, updates \in PresetUpdates : UpdateCarPresetApply(s, updates)
    \/ \E s \in Sessions, id \in PresetIds : DeleteCarPresetStart(s, id)
    \/ \E s \in Sessions : DeleteCarPresetApply(s)

PresetSpec == PresetInit /\ [][PresetNext]_vars

\* ===================================================== ReserveSeatButton
\* String.prototype.trim over the values a name takes here.
Trim(v) == IF v = " " THEN "" ELSE v

\* The names a profile form can send.
NameInputs == {"", " ", "Ann"}

\* !value || value.trim() === ""
IsMissing(v) == v = Null \/ v = "" \/ Trim(v) = ""

\* seatConfig.canUserRide: the requirements a profile lacks.
MissingRequirements(profile) ==
    {m \in {"Legal first name", "Legal last name", "Verified phone number", "Profile picture"} :
        \/ m = "Legal first name" /\ IsMissing(profile.legal_first_name)
        \/ m = "Legal last name" /\ IsMissing(profile.legal_last_name)
        \/ m = "Verified phone number" /\ ~profile.phone_verified
        \/ m = "Profile picture" /\ IsMissing(profile.profile_picture_url)}

CanUserRide(profile) == MissingRequirements(profile) = {}

\* ReserveSeatButton.checkPrereqs: the requirements the button tests.
ButtonMissing(profile) ==
    {m \in {"Legal first name", "Legal last name", "Profile picture"} :
        \/ m = "Legal first name" /\ IsMissing(profile.legal_first_name)
        \/ m = "Legal last name" /\ IsMissing(profile.legal_last_name)
        \/ m = "Profile picture" /\ IsMissing(profile.profile_picture_url)}

\* A profile is created by the sign-up trigger; its phone may have been
\* verified outside the application, which never writes phone_verified.
ButtonInit ==
    /\ profiles \in [Users -> {NewProfile, [NewProfile EXCEPT !.phone_verified = TRUE]}]
    /\ button = [s \in ButtonSessions |-> NoButton]
    /\ rides = [id \in RideIds |-> NoRide]
    /\ reservations = <<>>
    /\ calls = [s \in Sessions |-> IdleCall]
    /\ returned = NoReturn
    /\ presets = <<>>
    /\ presetCalls = [s \in Sessions |-> IdlePresetCall]
    /\ FormIdle /\ AuthIdle /\ CascadeIdle

\* POST /api/profile/update: both names are required, then stored trimmed; the
\* picture is stored when one is uploaded.
UpdateProfile(s, first, last, withPicture) ==
    /\ calls[s].pc = "idle"
    /\ UNCHANGED <<laterVars, rides, reservations, button, presetVars>>
    /\ LET user == GetUser(s) IN
       IF user = NoUser
       THEN Return(s, "profileUpdate", "Unauthorized", {}) /\ UNCHANGED profiles
       ELSE IF first = "" \/ last = ""
       THEN Return(s, "profileUpdate", "Legal first name and last name are required", {}) /\ UNCHANGED profiles
       ELSE /\ profiles' = [profiles EXCEPT ![user] =
                              [@ EXCEPT !.legal_first_name = Trim(first),
                                        !.legal_last_name = Trim(last),
                                        !.profile_picture_url = IF withPicture THEN "url" ELSE @]]
            /\ Return(s, "profileUpdate", "none", {})

\* The ride page renders the button with the ride row and the confirmed
\* reservations it fetched; the effect sets canRide to false at once for a
\* visitor without a user and for the driver.
MountButton(s, rideId) ==
    /\ button[s] = NoButton
    /\ CanSelectRide(GetUser(s), rideId)
    /\ UNCHANGED <<laterVars, rides, reservations, calls, returned, profiles, presetVars>>
    /\ LET user == GetUser(s)
           isDriver == user # NoUser /\ rides[rideId].driver_id = user
       IN button' = [button EXCEPT ![s] =
                        [ride_id |-> rideId,
                         available_seats |-> rides[rideId].available_seats,
                         reserved |-> {reservations[id].seat_number : id \in ConfirmedView(user, rideId)},
                         isDriver |-> isDriver,
                         canRide |-> IF user = NoUser \/ isDriver THEN "false" ELSE "null",
                         selectedSeat |-> 0]]

\* The page is left.
UnmountButton(s) ==
    /\ button[s] # NoButton
    /\ calls[s].pc = "idle"
    /\ button' = [button EXCEPT ![s] = NoButton]
    /\ UNCHANGED <<laterVars, rides, reservations, calls, returned, profiles, presetVars>>

\* checkPrereqs: the profile fetch and the three tests.
CheckPrereqs(s) ==
    /\ button[s] # NoButton
    /\ button[s].canRide = "null"
    /\ button' = [button EXCEPT ![s].canRide =
                     IF ButtonMissing(profiles[GetUser(s)]) = {} THEN "true" ELSE "false"]
    /\ UNCHANGED <<laterVars, rides, reservations, calls, returned, profiles, presetVars>>

\* handleSeatSelect, when it selects the seat.
HandleSeatSelect(s, seatNumber) ==
    /\ button[s] # NoButton
    /\ button[s].canRide = "true"
    /\ calls[s].pc = "idle"
    /\ seatNumber \notin button[s].reserved
    /\ seatNumber \in button[s].available_seats
    /\ button' = [button EXCEPT ![s].selectedSeat = seatNumber]
    /\ UNCHANGED <<laterVars, rides, reservations, calls, returned, profiles, presetVars>>

\* handleReserveSeat up to its call of createReservation.
HandleReserveSeat(s) ==
    /\ button[s] # NoButton
    /\ button[s].selectedSeat # 0
    /\ GetUser(s) # NoUser
    /\ button[s].canRide = "true"
    /\ ~button[s].isDriver
    /\ ReserveStart(s, button[s].ride_id, button[s].selectedSeat)
    /\ UNCHANGED <<laterVars, uiVars, presetVars>>

\* handleReserveSeat after createReservation returned: the selection is
\* cleared when a reservation came back.
AfterCreateReservation(s) ==
    /\ button' = IF calls'[s].pc = "idle" /\ returned'.err = "none"
                 THEN [button EXCEPT ![s].selectedSeat = 0]
                 ELSE button
    /\ UNCHANGED <<laterVars, profiles, presetVars>>

ButtonNext ==
    \/ \E s \in DriverSessions, seats \in SUBSET SeatNumbers : CreateRide(s, seats) /\ UNCHANGED <<laterVars, uiVars, presetVars>>
    \/ \E s \in ButtonSessions, first, last \in NameInputs, withPicture \in BOOLEAN :
          UpdateProfile(s, first, last, withPicture)
    \/ \E s \in ButtonSessions, rideId \in RideIds : MountButton(s, rideId)
    \/ \E s \in ButtonSessions : UnmountButton(s)
    \/ \E s \in ButtonSessions : CheckPrereqs(s)
    \/ \E s \in ButtonSessions, seatNumber \in SeatNumbers : HandleSeatSelect(s, seatNumber)
    \/ \E s \in ButtonSessions : HandleReserveSeat(s)
    \/ \E s \in ButtonSessions : ReserveCheckSeat(s) /\ AfterCreateReservation(s)
    \/ \E s \in ButtonSessions : ReserveCheckUser(s) /\ AfterCreateReservation(s)
    \/ \E s \in ButtonSessions : ReserveInsert(s) /\ AfterCreateReservation(s)

ButtonSpec == ButtonInit /\ [][ButtonNext]_vars

\* ============================================================ seat forms
\* seats.includes(n)
Includes(seats, n) == \E k \in DOMAIN seats : seats[k] = n

\* seats.filter((s) => s !== n)
Without(seats, n) == SelectSeq(seats, LAMBDA x : x # n)

InsertSeat(sorted, n) ==
    LET k == Cardinality({j \in DOMAIN sorted : sorted[j] <= n})
    IN  SubSeq(sorted, 1, k) \o <<n>> \o SubSeq(sorted, k + 1, Len(sorted))

\* seats.sort((a, b) => a - b)
RECURSIVE SortSeats(_)
SortSeats(seats) ==
    IF seats = <<>> THEN <<>> ELSE InsertSeat(SortSeats(Tail(seats)), Head(seats))

\* validateSeatConfiguration: "valid", or the error of the first failing test.
ValidateSeatConfiguration(seats) ==
    IF Len(seats) = 0 THEN "valid"
    ELSE IF Cardinality({seats[k] : k \in DOMAIN seats}) # Len(seats)
    THEN "Duplicate seat numbers are not allowed"
    ELSE IF Includes(seats, 1)
    THEN "Seat 1 is the driver's seat and cannot be available"
    ELSE IF \E k \in DOMAIN seats : seats[k] < 2
    THEN "All seat numbers must be positive integers starting from 2"
    ELSE IF \E k \in DOMAIN seats : seats[k] > MaxSeatNumber
    THEN "Seat numbers cannot exceed 20"
    ELSE "valid"

\* getAvailableSeatsForModel: seats 2..totalSeats.
GetAvailableSeatsForModel(totalSeats) ==
    IF totalSeats < 2 THEN <<>> ELSE [k \in 1..(totalSeats - 1) |-> k + 1]

\* handleSeatToggle of both forms: remove the seat, or add it and sort; an
\* invalid result is refused with a toast and the selection stays.
ToggleSeat(selectedSeats, seatNumber) ==
    LET newSeats == IF Includes(selectedSeats, seatNumber)
                    THEN Without(selectedSeats, seatNumber)
                    ELSE SortSeats(Append(selectedSeats, seatNumber))
    IN  IF ValidateSeatConfiguration(newSeats) = "valid" THEN newSeats ELSE selectedSeats

\* CarPresetForm opens: empty to create (id 0), or with the row to edit. The
\* two forms are two pages of one browser tab: one at a time is on screen.
OpenCarPresetForm(id) ==
    /\ ~carPresetForm.open
    /\ ~rideForm.open
    /\ carPresetForm' = IF id = 0
                        THEN [ClosedPresetForm EXCEPT !.open = TRUE]
                        ELSE [open |-> TRUE, editing |-> id,
                              totalSeats |-> presetSeats[id].totalSeats,
                              selectedSeats |-> presetSeats[id].default_available_seats]
    /\ UNCHANGED <<rideForm, presetSeats, rideSeats>>

\* The model select of CarPresetForm: a new preset gets all passenger seats of
\* the model; in edit mode the selection stays.
SelectModel(totalSeats) ==
    /\ carPresetForm.open
    /\ LET availableSeats == GetAvailableSeatsForModel(totalSeats) IN
       carPresetForm' = [carPresetForm EXCEPT
           !.totalSeats = totalSeats,
           !.selectedSeats = IF carPresetForm.editing = 0 /\ Len(availableSeats) > 0
                             THEN availableSeats ELSE @]
    /\ UNCHANGED <<rideForm, presetSeats, rideSeats>>

\* handleSeatToggle of CarPresetForm, on one of the model's checkboxes.
PresetFormSeatToggle(seatNumber) ==
    /\ carPresetForm.open
    /\ Includes(GetAvailableSeatsForModel(carPresetForm.totalSeats), seatNumber)
    /\ carPresetForm' = [carPresetForm EXCEPT !.selectedSeats = ToggleSeat(@, seatNumber)]
    /\ UNCHANGED <<rideForm, presetSeats, rideSeats>>

\* onSubmit of CarPresetForm: brand and model are required; the selected seats
\* are stored as default_available_seats (NULL when none), by createCarPreset
\* or updateCarPreset, and the form closes.
CarPresetFormSubmit ==
    /\ carPresetForm.open
    /\ carPresetForm.totalSeats > 0
    /\ LET row == [totalSeats |-> carPresetForm.totalSeats,
                   default_available_seats |-> carPresetForm.selectedSeats] IN
       IF carPresetForm.editing = 0
       THEN /\ Len(presetSeats) < MaxFormPresets
            /\ presetSeats' = Append(presetSeats, row)
       ELSE presetSeats' = [presetSeats EXCEPT ![carPresetForm.editing] = row]
    /\ carPresetForm' = ClosedPresetForm
    /\ UNCHANGED <<rideForm, rideSeats>>

\* RideForm mounts and fetchMyCarPresets loads the caller's presets.
OpenRideForm ==
    /\ ~rideForm.open
    /\ ~carPresetForm.open
    /\ rideForm' = [ClosedRideForm EXCEPT !.open = TRUE, !.carPresets = presetSeats]
    /\ UNCHANGED <<carPresetForm, presetSeats, rideSeats>>

\* handleCarPresetChange: the preset's default seats, when it has any, become
\* the selection and the form value; otherwise both are emptied.
HandleCarPresetChange(carPresetId) ==
    /\ rideForm.open
    /\ carPresetId \in DOMAIN rideForm.carPresets
    /\ LET defaultSeats == rideForm.carPresets[carPresetId].default_available_seats IN
       rideForm' = [rideForm EXCEPT !.car_preset_id = carPresetId,
                                    !.selectedSeats = defaultSeats,
                                    !.available_seats = defaultSeats]
    /\ UNCHANGED <<carPresetForm, presetSeats, rideSeats>>

\* handleSeatToggle of RideForm, on one of the AVAILABLE_SEAT_NUMBERS.
RideFormSeatToggle(seatNumber) ==
    /\ rideForm.open
    /\ LET newSeats == ToggleSeat(rideForm.selectedSeats, seatNumber) IN
       rideForm' = [rideForm EXCEPT !.selectedSeats = newSeats, !.available_seats = newSeats]
    /\ UNCHANGED <<carPresetForm, presetSeats, rideSeats>>

\* rideFormSchema without the test that at least one seat is offered.
RideFormSchemaNoMin(values) ==
    /\ values.car_preset_id # 0
    /\ \A k \in DOMAIN values.available_seats : values.available_seats[k] > 0

\* rideFormSchema on the fields modelled here: a car preset is chosen and
\* available_seats holds at least one positive integer.
RideFormSchema(values) ==
    /\ values.car_preset_id # 0
    /\ \A k \in DOMAIN values.available_seats : values.available_seats[k] > 0
    /\ Len(values.available_seats) >= 1

\* onSubmit of RideForm, reached when the schema accepts the form values:
\* createRide inserts the ride with available_seats = selectedSeats, and the
\* page moves on.
RideFormSubmit ==
    /\ rideForm.open
    /\ RideFormSchema(rideForm)
    /\ Len(rideSeats) < MaxFormRides
    /\ rideSeats' = Append(rideSeats, [car_preset_id |-> rideForm.car_preset_id,
                                       available_seats |-> rideForm.selectedSeats])
    /\ rideForm' = ClosedRideForm
    /\ UNCHANGED <<carPresetForm, presetSeats>>

\* onCancel of either form: the page is left and nothing is stored.
CancelForm ==
    /\ carPresetForm.open \/ rideForm.open
    /\ carPresetForm' = ClosedPresetForm
    /\ rideForm' = ClosedRideForm
    /\ UNCHANGED <<presetSeats, rideSeats>>

\* The other families of variables stay as they start.
FormFrame == UNCHANGED <<rides, reservations, calls, returned, uiVars, presetVars,
                         authVars, cascadeVars>>

FormInit ==
    /\ FormIdle /\ AuthIdle /\ CascadeIdle
    /\ rides = [id \in RideIds |-> NoRide]
    /\ reservations = <<>>
    /\ calls = [s \in Sessions |-> IdleCall]
    /\ returned = NoReturn
    /\ profiles = [u \in Users |-> NewProfile]
    /\ button = [s \in ButtonSessions |-> NoButton]
    /\ presets = <<>>
    /\ presetCalls = [s \in Sessions |-> IdlePresetCall]

FormNext ==
    \/ \E id \in {0} \cup DOMAIN presetSeats : OpenCarPresetForm(id) /\ FormFrame
    \/ \E totalSeats \in ModelSeatCounts : SelectModel(totalSeats) /\ FormFrame
    \/ \E seatNumber \in 2..MaxFormSeat : PresetFormSeatToggle(seatNumber) /\ FormFrame
    \/ CarPresetFormSubmit /\ FormFrame
    \/ OpenRideForm /\ FormFrame
    \/ \E carPresetId \in 1..MaxFormPresets : HandleCarPresetChange(carPresetId) /\ FormFrame
    \/ \E seatNumber \in FormSeatNumbers : RideFormSeatToggle(seatNumber) /\ FormFrame
    \/ RideFormSubmit /\ FormFrame
    \/ CancelForm /\ FormFrame

FormSpec == FormInit /\ [][FormNext]_vars

\* =================================================================== auth
SessionErrorMsg == "Failed to get session"
ProfileErrorMsg == "Failed to fetch profile"
SignErrorMsg == "Invalid login credentials"
AuthOps == {"signIn", "signUp", "signOut", "signInWithGoogle"}

\* An instance whose component is gone: its state is dropped.
Unmounted(h) == [NewHook EXCEPT !.mounts = h.mounts, !.call = h.call]

\* The instances of the pages and forms, which call signIn and the like;
\* RouteGuard reads user and loading of its instance and calls nothing.
FormHooks == HookIds \ GuardHooks

\* The callback instance i registered in its latest effect run.
CallbackOf(i) == <<i, hooks[i].mounts>>

\* user, profile, loading and error of a useAuth instance.
HookState(h) == <<h.user, h.profile, h.loading, h.error>>

\* The callbacks in cbs are called with the manager state m: each sets the
\* state of its instance, unless isMountedRef.current is false.
Deliver(h, m, cbs) ==
    [i \in HookIds |->
        IF h[i].mounted /\ (\E cb \in cbs : cb[1] = i)
        THEN [h[i] EXCEPT !.user = m.currentUser, !.profile = m.currentProfile,
                          !.loading = m.isLoading, !.error = m.error]
        ELSE h[i]]

\* notifyAll, after the manager fields became m and the instances h.
NotifyAll(h, m) ==
    /\ manager' = [m EXCEPT !.invoked = m.callbacks]
    /\ hooks' = Deliver(h, m, m.callbacks)

\* A step that calls no callback.
NoNotify(h, m) ==
    /\ manager' = [m EXCEPT !.invoked = {}]
    /\ hooks' = h

\* The fields after fetchProfile(userId) came back: the row, or the error.
FetchProfileResult(m, userId, ok) ==
    IF ok THEN [m EXCEPT !.currentProfile = userId, !.error = "none"]
    ELSE [m EXCEPT !.currentProfile = NoProfile, !.error = ProfileErrorMsg]

\* if (!this.subscription) this.subscription = onAuthStateChange(...)
Subscribed(m) == [m EXCEPT !.subscription = IF @ = 0 THEN 1 ELSE @]

\* initialize(): getSession comes back. On an error the fields are cleared,
\* the callbacks notified and no listener is set up; with a user, currentUser
\* is set and fetchProfile awaited; without one the fields are cleared, the
\* callbacks notified and the listener set up.
InitGetSession(ok) ==
    /\ manager.init = "getSession"
    /\ IF ~ok
       THEN NotifyAll(hooks, [manager EXCEPT !.error = SessionErrorMsg, !.currentUser = NoUser,
                                             !.currentProfile = NoProfile, !.isLoading = FALSE,
                                             !.init = "failed"])
       ELSE IF authSession # NoUser
       THEN NoNotify(hooks, [manager EXCEPT !.currentUser = authSession, !.initUser = authSession,
                                            !.init = "fetchProfile"])
       ELSE NotifyAll(hooks, Subscribed([manager EXCEPT !.currentUser = NoUser,
                                             !.currentProfile = NoProfile, !.isLoading = FALSE,
                                             !.init = "done"]))
    /\ UNCHANGED <<authSession, tasks, guard>>

\* initialize(): its fetchProfile comes back; loading ends, the callbacks are
\* notified and the listener is set up.
InitProfileFetched(ok) ==
    /\ manager.init = "fetchProfile"
    /\ NotifyAll(hooks, Subscribed([FetchProfileResult(manager, manager.initUser, ok)
                                       EXCEPT !.isLoading = FALSE, !.init = "done"]))
    /\ UNCHANGED <<authSession, tasks, guard>>

\* The session becomes u (NoUser: signed out) and, when the listener exists,
\* the onAuthStateChange handler runs up to its await: with a user it sets
\* currentUser and isLoading, notifies and starts fetchProfile; without one
\* it clears user and profile, ends loading and notifies.
AuthStateChange(h, u) ==
    /\ authSession' = u
    /\ IF manager.subscription = 0
       THEN NoNotify(h, manager) /\ UNCHANGED tasks
       ELSE IF u # NoUser
       THEN /\ [kind |-> "handler", userId |-> u] \notin tasks
            /\ Cardinality(tasks) < MaxTasks
            /\ tasks' = tasks \cup {[kind |-> "handler", userId |-> u]}
            /\ NotifyAll(h, [manager EXCEPT !.currentUser = u, !.isLoading = TRUE])
       ELSE /\ NotifyAll(h, [manager EXCEPT !.currentUser = NoUser,
                                            !.currentProfile = NoProfile, !.isLoading = FALSE])
            /\ UNCHANGED tasks

\* An auth event that no call on this page caused: another tab signs in or
\* out, or the token is refreshed.
ExternalAuthChange(u) ==
    /\ manager.subscription > 0
    /\ AuthStateChange(hooks, u)
    /\ UNCHANGED guard

\* The handler resumes after its fetchProfile: loading ends and the callbacks
\* are notified.
HandlerProfileFetched(t, ok) ==
    /\ t \in tasks
    /\ t.kind = "handler"
    /\ tasks' = tasks \ {t}
    /\ NotifyAll(hooks, [FetchProfileResult(manager, t.userId, ok) EXCEPT !.isLoading = FALSE])
    /\ UNCHANGED <<authSession, guard>>

\* refreshProfile(): with a current user, fetchProfile is awaited.
RefreshProfileStart ==
    /\ manager.currentUser # NoUser
    /\ [kind |-> "refresh", userId |-> manager.currentUser] \notin tasks
    /\ Cardinality(tasks) < MaxTasks
    /\ tasks' = tasks \cup {[kind |-> "refresh", userId |-> manager.currentUser]}
    /\ NoNotify(hooks, manager)
    /\ UNCHANGED <<authSession, guard>>

\* refreshProfile() resumes after its fetchProfile and notifies.
RefreshProfileFetched(t, ok) ==
    /\ t \in tasks
    /\ t.kind = "refresh"
    /\ tasks' = tasks \ {t}
    /\ NotifyAll(hooks, FetchProfileResult(manager, t.userId, ok))
    /\ UNCHANGED <<authSession, guard>>

\* RouteGuard without its loading branch.
RouteGuardOutputNoLoadingTest(user, loading, showLoading) ==
    IF user = NoUser THEN "null" ELSE "children"

\* What RouteGuard returns for the user and loading of its useAuth instance.
RouteGuardOutput(user, loading, showLoading) ==
    IF loading THEN (IF showLoading THEN "spinner" ELSE "null")
    ELSE IF user = NoUser THEN "null"
    ELSE "children"

\* The useAuth effect: subscribe() adds a new callback and calls it at once
\* with the current fields. A RouteGuard rendered first with the useState
\* defaults, and its effect saw loading.
UseAuthMount(i, showLoading) ==
    /\ ~hooks[i].mounted
    /\ hooks[i].mounts < MaxMounts
    /\ LET cb == <<i, hooks[i].mounts + 1>>
           h == [hooks EXCEPT ![i] = [NewHook EXCEPT !.mounted = TRUE, !.mounts = cb[2],
                                                     !.call = hooks[i].call]]
       IN  /\ manager' = [manager EXCEPT !.callbacks = @ \cup {cb}, !.invoked = {cb}]
           /\ hooks' = Deliver(h, manager, {cb})
    /\ guard' = [j \in GuardHooks |->
                    IF j = i
                    THEN [output |-> RouteGuardOutput(NoUser, TRUE, showLoading),
                          showLoading |-> showLoading,
                          deps |-> <<NoUser, TRUE>>, redirected |-> FALSE]
                    ELSE guard[j]]
    /\ UNCHANGED <<authSession, tasks>>

\* The cleanup of the useAuth effect without unsubscribe().
UseAuthUnmountKeepsCallback(i) ==
    /\ hooks[i].mounted
    /\ NoNotify([hooks EXCEPT ![i] = Unmounted(@)], manager)
    /\ guard' = [j \in GuardHooks |-> IF j = i THEN NoGuard ELSE guard[j]]
    /\ UNCHANGED <<authSession, tasks>>

\* The cleanup of the useAuth effect: isMountedRef.current = false, unsubscribe().
UseAuthUnmount(i) ==
    /\ hooks[i].mounted
    /\ NoNotify([hooks EXCEPT ![i] = Unmounted(@)],
                [manager EXCEPT !.callbacks = @ \ {CallbackOf(i)}])
    /\ guard' = [j \in GuardHooks |-> IF j = i THEN NoGuard ELSE guard[j]]
    /\ UNCHANGED <<authSession, tasks>>

\* RouteGuard renders again after user or loading of its instance changed (a
\* render after another change returns the same and runs no effect); the
\* effect then runs, and pushes redirectTo when loading is over and there is
\* no user.
RouteGuardRender(i) ==
    /\ hooks[i].mounted
    /\ guard[i].deps # <<hooks[i].user, hooks[i].loading>>
    /\ LET user == hooks[i].user
           loading == hooks[i].loading
       IN  guard' = [guard EXCEPT ![i] =
               [@ EXCEPT !.output = RouteGuardOutput(user, loading, guard[i].showLoading),
                         !.deps = <<user, loading>>,
                         !.redirected = ~loading /\ user = NoUser]]
    /\ NoNotify(hooks, manager)
    /\ UNCHANGED <<authSession, tasks>>

\* signIn, signUp, signOut, signInWithGoogle up to the await: setLoading(true),
\* setError(null) on the calling instance.
SignStart(i, op) ==
    /\ hooks[i].mounted
    /\ hooks[i].call = "none"
    /\ NoNotify([hooks EXCEPT ![i].loading = TRUE, ![i].error = "none", ![i].call = op], manager)
    /\ UNCHANGED <<authSession, tasks, guard>>

\* The auth call comes back. With an error, setError(message) and the call
\* returns. Without one the session changed and the listener hears of it; a
\* Google sign-in takes the browser away from the page.
SignResolve(i, ok, u) ==
    /\ hooks[i].call # "none"
    /\ LET h == [hooks EXCEPT ![i].call = "none"] IN
       IF ~ok
       THEN /\ NoNotify([h EXCEPT ![i].error = IF hooks[i].mounted THEN SignErrorMsg ELSE @],
                        manager)
            /\ UNCHANGED <<authSession, tasks, guard>>
       ELSE IF hooks[i].call = "signInWithGoogle"
       THEN /\ NoNotify([j \in HookIds |-> Unmounted(h[j])],
                        [manager EXCEPT !.callbacks = {}])
            /\ guard' = [j \in GuardHooks |-> NoGuard]
            /\ UNCHANGED <<authSession, tasks>>
       ELSE /\ AuthStateChange(h, IF hooks[i].call = "signOut" THEN NoUser ELSE u)
            /\ UNCHANGED guard

AuthFrame == UNCHANGED <<rides, reservations, calls, returned, uiVars, presetVars,
                         formVars, cascadeVars>>

\* The page loads: the module creates the AuthManager; the browser may hold
\* the session of a user who signed in earlier.
AuthInit ==
    /\ authSession \in {NoUser} \cup AuthUsers
    /\ manager = NewManager
    /\ hooks = [i \in HookIds |-> NewHook]
    /\ tasks = {}
    /\ guard = [i \in GuardHooks |-> NoGuard]
    /\ FormIdle /\ CascadeIdle
    /\ rides = [id \in RideIds |-> NoRide]
    /\ reservations = <<>>
    /\ calls = [s \in Sessions |-> IdleCall]
    /\ returned = NoReturn
    /\ profiles = [u \in Users |-> NewProfile]
    /\ button = [s \in ButtonSessions |-> NoButton]
    /\ presets = <<>>
    /\ presetCalls = [s \in Sessions |-> IdlePresetCall]

AuthNext ==
    \/ \E ok \in BOOLEAN : InitGetSession(ok) /\ AuthFrame
    \/ \E ok \in BOOLEAN : InitProfileFetched(ok) /\ AuthFrame
    \/ \E u \in {NoUser} \cup AuthUsers : ExternalAuthChange(u) /\ AuthFrame
    \/ \E t \in tasks, ok \in BOOLEAN : HandlerProfileFetched(t, ok) /\ AuthFrame
    \/ RefreshProfileStart /\ AuthFrame
    \/ \E t \in tasks, ok \in BOOLEAN : RefreshProfileFetched(t, ok) /\ AuthFrame
    \/ \E i \in HookIds, showLoading \in BOOLEAN : UseAuthMount(i, showLoading) /\ AuthFrame
    \/ \E i \in HookIds : UseAuthUnmount(i) /\ AuthFrame
    \/ \E i \in GuardHooks : RouteGuardRender(i) /\ AuthFrame
    \/ \E i \in FormHooks, op \in AuthOps : SignStart(i, op) /\ AuthFrame
    \/ \E i \in FormHooks, ok \in BOOLEAN, u \in AuthUsers : SignResolve(i, ok, u) /\ AuthFrame

AuthSpec == AuthInit /\ [][AuthNext]_vars

\* The steps that need no user: a pending request comes back, a pending
\* render happens.
AuthFairSpec ==
    /\ AuthSpec
    /\ WF_vars(\E ok \in BOOLEAN : InitGetSession(ok) /\ AuthFrame)
    /\ WF_vars(\E ok \in BOOLEAN : InitProfileFetched(ok) /\ AuthFrame)
    /\ WF_vars(\E t \in tasks, ok \in BOOLEAN : HandlerProfileFetched(t, ok) /\ AuthFrame)
    /\ WF_vars(\E t \in tasks, ok \in BOOLEAN : RefreshProfileFetched(t, ok) /\ AuthFrame)
    /\ WF_vars(\E i \in GuardHooks : RouteGuardRender(i) /\ AuthFrame)
    /\ WF_vars(\E i \in FormHooks, ok \in BOOLEAN, u \in AuthUsers : SignResolve(i, ok, u) /\ AuthFrame)

\* =============================================================== cascades
\* The foreign keys of the tables and the statements that delete referenced
\* rows: deleteEvent of useEvents, and DELETE on rides, car_presets and
\* profiles under the policies of the migrations.

\* The ids of the rows of a table that exist.
LiveIds(table) == {i \in DOMAIN table : ~table[i].deleted}

\* DELETE of the rows ids of a table.
MarkDeleted(table, ids) ==
    [i \in DOMAIN table |-> IF i \in ids THEN [table[i] EXCEPT !.deleted = TRUE] ELSE table[i]]

\* DELETE of rides: ride_reservations.ride_id ... ON DELETE CASCADE.
DeleteRides(d, ids) ==
    [d EXCEPT !.rides = MarkDeleted(@, ids),
              !.ride_reservations = MarkDeleted(@,
                  {r \in LiveIds(d.ride_reservations) : d.ride_reservations[r].ride_id \in ids})]

\* DELETE of events: rides.event_id ... ON DELETE CASCADE, and from the rides
\* on to their reservations.
DeleteEvents(d, ids) ==
    [DeleteRides(d, {r \in LiveIds(d.rides) : d.rides[r].event_id \in ids})
        EXCEPT !.events = MarkDeleted(@, ids)]

\* The rides that reference a car preset of user u: car_preset_id ... ON
\* DELETE RESTRICT.
RidesOnPresetsOf(d, u) ==
    {r \in LiveIds(d.rides) :
        /\ d.rides[r].car_preset_id \in LiveIds(d.car_presets)
        /\ d.car_presets[d.rides[r].car_preset_id].user_id = u}

\* DELETE of the profile of u carried out: car_presets.user_id, rides.driver_id
\* and ride_reservations.rider_id cascade, events.created_by is set to NULL.
DeleteProfileRows(d, u) ==
    LET driven == {r \in LiveIds(d.rides) : d.rides[r].driver_id = u}
        held == {r \in LiveIds(d.ride_reservations) : d.ride_reservations[r].rider_id = u}
        c == DeleteRides(d, driven)
    IN  [c EXCEPT !.profiles[u] = FALSE,
                  !.car_presets = MarkDeleted(@,
                      {p \in LiveIds(d.car_presets) : d.car_presets[p].user_id = u}),
                  !.ride_reservations = MarkDeleted(@, held),
                  !.events = [e \in DOMAIN @ |->
                      IF ~@[e].deleted /\ @[e].created_by = u
                      THEN [@[e] EXCEPT !.created_by = NoUser] ELSE @[e]]]

\* createEvent by the user of session s: created_by is the caller, and the
\* insert fails when the caller has no profile row (foreign key).
InsertEvent(s) ==
    /\ Len(db.events) < MaxDbEvents
    /\ db.profiles[s]
    /\ db' = [db EXCEPT !.events = Append(@, [created_by |-> s, deleted |-> FALSE])]
    /\ UNCHANGED <<eventCalls, eventReturned>>

\* createCarPreset by the user of session s: user_id is the caller.
InsertCarPreset(s) ==
    /\ Len(db.car_presets) < MaxDbPresets
    /\ db.profiles[s]
    /\ db' = [db EXCEPT !.car_presets = Append(@, [user_id |-> s, deleted |-> FALSE])]
    /\ UNCHANGED <<eventCalls, eventReturned>>

\* createRide by the user of session s: driver_id is the caller; the insert
\* goes through only when the event, the driver's profile and the car preset
\* exist (the preset of any user: only the foreign key is checked).
InsertRide(s, eventId, presetId) ==
    /\ Len(db.rides) < MaxDbRides
    /\ db.profiles[s]
    /\ eventId \in LiveIds(db.events)
    /\ presetId \in LiveIds(db.car_presets)
    /\ db' = [db EXCEPT !.rides = Append(@, [event_id |-> eventId, driver_id |-> s,
                                             car_preset_id |-> presetId, deleted |-> FALSE])]
    /\ UNCHANGED <<eventCalls, eventReturned>>

\* createReservation by the user of session s: rider_id is the caller; the
\* insert goes through only when the ride and the rider's profile exist and
\* the rider holds no row on the ride (UNIQUE(ride_id, rider_id)).
InsertReservation(s, rideId) ==
    /\ Len(db.ride_reservations) < MaxDbReservations
    /\ db.profiles[s]
    /\ rideId \in LiveIds(db.rides)
    /\ \A r \in LiveIds(db.ride_reservations) :
          ~(db.ride_reservations[r].ride_id = rideId /\ db.ride_reservations[r].rider_id = s)
    /\ db' = [db EXCEPT !.ride_reservations =
                 Append(@, [ride_id |-> rideId, rider_id |-> s, deleted |-> FALSE])]
    /\ UNCHANGED <<eventCalls, eventReturned>>

\* deleteEvent up to its delete: getUser (no user once the account is
\* deleted), then select created_by ... single() and the comparison with the
\* caller.
DeleteEventStart(s, id) ==
    /\ eventCalls[s].pc = "idle"
    /\ IF ~db.profiles[s]
       THEN /\ eventReturned' = [op |-> "deleteEvent",
                                 err |-> "You must be logged in to delete an event", id |-> id]
            /\ UNCHANGED eventCalls
       ELSE IF id \notin LiveIds(db.events)
       THEN /\ eventReturned' = [op |-> "deleteEvent", err |-> "Event not found", id |-> id]
            /\ UNCHANGED eventCalls
       ELSE IF db.events[id].created_by # s
       THEN /\ eventReturned' = [op |-> "deleteEvent",
                                 err |-> "You can only delete events you created", id |-> id]
            /\ UNCHANGED eventCalls
       ELSE /\ eventCalls' = [eventCalls EXCEPT ![s] = [pc |-> "delete", id |-> id]]
            /\ eventReturned' = NoEventReturn
    /\ UNCHANGED db

\* deleteEvent from its delete on: delete().eq("id", id) under "Creators can
\* delete events" (auth.uid() = created_by). A delete that matches no row
\* gives no error, so the hook returns { error: null } either way.
DeleteEventApply(s) ==
    /\ eventCalls[s].pc = "delete"
    /\ LET id == eventCalls[s].id
           matched == IF id \in LiveIds(db.events) /\ db.events[id].created_by = s
                      THEN {id} ELSE {}
       IN  /\ db' = DeleteEvents(db, matched)
           /\ eventReturned' = [op |-> "deleteEvent", err |-> "none", id |-> id]
    /\ eventCalls' = [eventCalls EXCEPT ![s] = IdleEventCall]

\* DELETE FROM rides WHERE id = ... by the user of session s under "Drivers
\* can delete own rides" (auth.uid() = driver_id).
DeleteRide(s, id) ==
    /\ id \in LiveIds(db.rides)
    /\ db.rides[id].driver_id = s
    /\ db' = DeleteRides(db, {id})
    /\ UNCHANGED <<eventCalls, eventReturned>>

\* DELETE FROM car_presets WHERE id = ... by its owner: refused while a ride
\* references the preset (ON DELETE RESTRICT).
DeletePresetRow(s, id) ==
    /\ id \in LiveIds(db.car_presets)
    /\ db.car_presets[id].user_id = s
    /\ \A r \in LiveIds(db.rides) : db.rides[r].car_preset_id # id
    /\ db' = [db EXCEPT !.car_presets = MarkDeleted(@, {id})]
    /\ UNCHANGED <<eventCalls, eventReturned>>

\* The account of user u is deleted: profiles.id ... REFERENCES auth.users ON
\* DELETE CASCADE removes the profile. A ride of another driver on one of u's
\* car presets makes the statement fail (RESTRICT); a ride of u's own on one
\* of u's presets is removed by the cascade from profiles or blocks the
\* cascade from car_presets, whichever trigger runs first.
DeleteProfile(u, restrictFirst) ==
    /\ db.profiles[u]
    /\ LET blocking == RidesOnPresetsOf(db, u)
       IN  /\ \A r \in blocking : db.rides[r].driver_id = u
           /\ restrictFirst => blocking = {}
    /\ db' = DeleteProfileRows(db, u)
    /\ UNCHANGED <<eventCalls, eventReturned>>

\* The cascade steps leave the reservation path, the car preset hook, the
\* button, the forms and the auth state alone.
CascadeFrame ==
    UNCHANGED <<rides, reservations, calls, returned, profiles, button, presets,
                presetCalls, formVars, authVars>>

CascadeInit ==
    /\ FormIdle /\ AuthIdle /\ CascadeIdle
    /\ rides = [id \in RideIds |-> NoRide]
    /\ reservations = <<>>
    /\ calls = [s \in Sessions |-> IdleCall]
    /\ returned = NoReturn
    /\ profiles = [u \in Users |-> NewProfile]
    /\ button = [s \in ButtonSessions |-> NoButton]
    /\ presets = <<>>
    /\ presetCalls = [s \in Sessions |-> IdlePresetCall]

CascadeNext ==
    \/ (\E s \in DbUsers : InsertEvent(s)) /\ CascadeFrame
    \/ (\E s \in DbUsers : InsertCarPreset(s)) /\ CascadeFrame
    \/ (\E s \in DbUsers, e \in 1..MaxDbEvents, p \in 1..MaxDbPresets : InsertRide(s, e, p))
       /\ CascadeFrame
    \/ (\E s \in DbUsers, r \in 1..MaxDbRides : InsertReservation(s, r)) /\ CascadeFrame
    \/ (\E s \in DbUsers, e \in 1..MaxDbEvents : DeleteEventStart(s, e)) /\ CascadeFrame
    \/ (\E s \in DbUsers : DeleteEventApply(s)) /\ CascadeFrame
    \/ (\E s \in DbUsers, r \in 1..MaxDbRides : DeleteRide(s, r)) /\ CascadeFrame
    \/ (\E s \in DbUsers, p \in 1..MaxDbPresets : DeletePresetRow(s, p)) /\ CascadeFrame
    \/ (\E u \in DbUsers, restrictFirst \in BOOLEAN : DeleteProfile(u, restrictFirst))
       /\ CascadeFrame

CascadeSpec == CascadeInit /\ [][CascadeNext]_vars

\* ================================================================= claims
RowsOf(rideId) == {id \in ReservationIds : reservations[id].ride_id = rideId}
ConfirmedOf(rideId) == {id \in RowsOf(rideId) : reservations[id].status = "confirmed"}
NewRows == {id \in DOMAIN reservations' : id \notin ReservationIds}
\* Session s takes the last step of the call it is running.
Completes(s) == calls[s].pc # "idle" /\ calls'[s].pc = "idle"

\* C1: for every (ride, seat number) at most one reservation row has status
\* confirmed, in every reachable state.
C1_OneConfirmedPerSeat ==
    \A i, j \in ReservationIds :
        (/\ reservations[i].ride_id = reservations[j].ride_id
         /\ reservations[i].seat_number = reservations[j].seat_number
         /\ reservations[i].status = "confirmed"
         /\ reservations[j].status = "confirmed") => i = j

\* An insert was turned down by the seat key while every row is confirmed.
C1_Witness ==
    /\ returned.op = "createReservation"
    /\ returned.err = DuplicateKeyMsg(SeatKey)
    /\ ReservationIds # {}
    /\ \A id \in ReservationIds : reservations[id].status = "confirmed"

\* C2: for every (ride, rider) at most one reservation row has status
\* confirmed, in every reachable state.
C2_OneConfirmedPerRider ==
    \A i, j \in ReservationIds :
        (/\ reservations[i].ride_id = reservations[j].ride_id
         /\ reservations[i].rider_id = reservations[j].rider_id
         /\ reservations[i].status = "confirmed"
         /\ reservations[j].status = "confirmed") => i = j

\* An insert was turned down by the rider key while every row is confirmed.
C2_Witness ==
    /\ returned.op = "createReservation"
    /\ returned.err = DuplicateKeyMsg(RiderKey)
    /\ ReservationIds # {}
    /\ \A id \in ReservationIds : reservations[id].status = "confirmed"

\* C3: for every ride the number of confirmed reservation rows is at most the
\* number of seat numbers in the ride's available_seats.
C3_ConfirmedWithinOffered ==
    \A r \in RideIds : rides[r] # NoRide => Cardinality(ConfirmedOf(r)) <= Cardinality(rides[r].available_seats)

\* Sessions s and d, of different riders, have both passed every pre-check for
\* the same seat of the same active ride and neither has inserted yet.
Racing(s, d) ==
    /\ s # d
    /\ GetUser(s) # GetUser(d)
    /\ calls[s].pc = "insert"
    /\ calls[d].pc = "insert"
    /\ calls[s].ride_id = calls[d].ride_id
    /\ calls[s].seat_number = calls[d].seat_number
    /\ rides[calls[s].ride_id].status = "active"

\* C4: of two riders racing createReservation for the same seat of an active
\* ride, the first insert succeeds, the other call returns "Seat N is already
\* reserved", and no state holds two rows for the seat.
C4_RaceResolved ==
    [][/\ \A s, d \in Sessions : (Racing(s, d) /\ Completes(s)) => returned'.err = "none"
       /\ \A s \in Sessions :
            (/\ calls[s].pc = "insert"
             /\ Completes(s)
             /\ \E id \in ConfirmedOf(calls[s].ride_id) :
                    /\ reservations[id].seat_number = calls[s].seat_number
                    /\ reservations[id].rider_id # GetUser(s))
            => returned'.err = SeatTakenMsg(calls[s].seat_number)
       /\ \A i, j \in DOMAIN reservations' :
            (/\ reservations'[i].ride_id = reservations'[j].ride_id
             /\ reservations'[i].seat_number = reservations'[j].seat_number) => i = j]_vars

IsDriver(s, rideId) == GetUser(s) # NoUser /\ rides[rideId].driver_id = GetUser(s)

\* The step is a call that began and returned at once; op is its hook function.
OneStep(op) == calls' = calls /\ returned'.op = op

\* C5: a createReservation call by the driver of the ride never returns a
\* reservation and never inserts a row, and no row's rider is its ride's driver.
C5_DriverNeverReserves ==
    [][/\ OneStep("createReservation")
            => (returned'.err # "none" /\ returned'.data = {} /\ reservations' = reservations)
       /\ \A s \in Sessions :
            (calls'[s] # calls[s] /\ calls[s].op = "createReservation" /\ IsDriver(s, calls[s].ride_id))
            => (reservations' = reservations /\ (calls'[s].pc = "idle" => returned'.err # "none" /\ returned'.data = {}))
       /\ \A id \in DOMAIN reservations' : reservations'[id].rider_id # rides'[reservations'[id].ride_id].driver_id]_vars

\* The driver's call ran up to the driver test and was turned down there.
C5_Witness == returned.op = "createReservation" /\ returned.err = OwnRideMsg

\* C6: a createReservation for a seat that is not in the ride's available_seats
\* is rejected and inserts nothing, and every inserted row's seat is in the
\* available_seats its ride has at the insert.
C6_SeatOfferedAtInsert ==
    [][/\ OneStep("createReservation")
            => \A s \in Sessions, r \in RideIds, n \in SeatNumbers :
                  (n \notin rides[r].available_seats /\ ReserveStart(s, r, n))
                  => (returned'.err # "none" /\ reservations' = reservations)
       /\ \A s \in Sessions :
            (calls[s].pc = "idle" /\ calls'[s].pc = "checkSeat")
            => calls'[s].seat_number \in rides[calls'[s].ride_id].available_seats
       /\ \A id \in NewRows :
            reservations'[id].seat_number \in rides[reservations'[id].ride_id].available_seats]_vars

\* C7: on an active ride with no reservation rows a createReservation by a
\* logged-in non-driver for an offered seat passes every step and ends with a
\* confirmed row; while that row is confirmed and the ride active, a later
\* createReservation for the seat by another rider returns "Seat N is already
\* reserved" and adds no row.
C7_FirstWinsLaterTold ==
    [][/\ OneStep("createReservation")
            => \A s \in Sessions, r \in RideIds, n \in SeatNumbers :
                  ~(/\ GetUser(s) # NoUser /\ ~IsDriver(s, r)
                    /\ rides[r].status = "active" /\ n \in rides[r].available_seats
                    /\ RowsOf(r) = {}
                    /\ ReserveStart(s, r, n))
       /\ \A s \in Sessions :
            (/\ calls'[s] # calls[s] /\ calls[s].op = "createReservation"
             /\ ~IsDriver(s, calls[s].ride_id)
             /\ RowsOf(calls[s].ride_id) = {})
            => IF calls[s].pc = "insert"
               THEN /\ returned'.err = "none"
                    /\ NewRows = returned'.data
                    /\ \A id \in NewRows :
                          reservations'[id] = [ride_id |-> calls[s].ride_id, rider_id |-> GetUser(s),
                                               seat_number |-> calls[s].seat_number, status |-> "confirmed"]
                    /\ NewRows # {}
               ELSE calls'[s].pc # "idle"
       /\ \A s \in Sessions :
            (/\ calls'[s] # calls[s] /\ calls[s].pc = "checkSeat"
             /\ rides[calls[s].ride_id].status = "active"
             /\ \E id \in ConfirmedOf(calls[s].ride_id) :
                    /\ reservations[id].seat_number = calls[s].seat_number
                    /\ reservations[id].rider_id # GetUser(s))
            => (/\ calls'[s].pc = "idle"
                /\ returned'.err = SeatTakenMsg(calls[s].seat_number)
                /\ returned'.data = {}
                /\ reservations' = reservations)]_vars

\* The seat pre-check turned a call down while the seat's row is confirmed.
C7_Witness ==
    /\ returned.op = "createReservation"
    /\ \E id \in ReservationIds :
          /\ reservations[id].status = "confirmed"
          /\ returned.err = SeatTakenMsg(reservations[id].seat_number)

\* C8: the owner's cancelReservation of a confirmed row sets it to cancelled, a
\* cancelled row never becomes confirmed again, and no confirmed-only read
\* returns a cancelled row.
C8_CancelledStaysHidden ==
    [][/\ OneStep("cancelReservation")
            => \A s \in Sessions, id \in ReservationIds :
                  (/\ reservations[id].rider_id = GetUser(s)
                   /\ reservations[id].status = "confirmed"
                   /\ CancelReservation(s, id))
                  => (reservations'[id].status = "cancelled" /\ returned'.err = "none")
       /\ \A id \in ReservationIds :
            reservations[id].status = "cancelled" => reservations'[id].status = "cancelled"
       /\ (OneStep("fetchReservationsForRide") \/ OneStep("fetchRide"))
            => \A id \in returned'.data : reservations[id].status # "cancelled"]_vars

\* A read returned a row of a ride that also has a cancelled row.
C8_Witness ==
    /\ returned.op \in {"fetchReservationsForRide", "fetchRide"}
    /\ returned.data # {}
    /\ \E id \in ReservationIds :
          /\ reservations[id].status = "cancelled"
          /\ \A k \in returned.data : reservations[k].ride_id = reservations[id].ride_id

\* C9: a cancelReservation by a caller who is not the row's rider, or who is
\* not logged in, changes no reservation row.
C9_OnlyOwnerCancels ==
    [][OneStep("cancelReservation")
          => \A s \in Sessions, id \in ReservationIds \cup {0} :
                (/\ id \in ReservationIds => reservations[id].rider_id # GetUser(s)
                 /\ CancelReservation(s, id))
                => reservations' = reservations]_vars

\* A cancelReservation that matched no row of the caller has returned: every
\* row is still confirmed.
C9_Witness ==
    /\ returned.op = "cancelReservation"
    /\ returned.err = "none"
    /\ ReservationIds # {}
    /\ \A id \in ReservationIds : reservations[id].status = "confirmed"

\* C10: once a row for (ride, seat, rider) is cancelled, no createReservation
\* adds a row for that seat of the ride, nor a row for that rider on the ride.
C10_CancelledBlocksReuse ==
    [][\A id \in ReservationIds :
          reservations[id].status = "cancelled"
          => \A new \in NewRows :
                reservations'[new].ride_id = reservations[id].ride_id
                => (/\ reservations'[new].seat_number # reservations[id].seat_number
                    /\ reservations'[new].rider_id # reservations[id].rider_id)]_vars

\* With a single row, which is cancelled, an insert was turned down by a key.
C10_Witness ==
    /\ returned.op = "createReservation"
    /\ returned.err \in {DuplicateKeyMsg(SeatKey), DuplicateKeyMsg(RiderKey)}
    /\ Len(reservations) = 1
    /\ reservations[1].status = "cancelled"

\* The error of the earliest precondition, in the order (a) authenticated,
\* (b) ride active, (c) seat offered, (d) seat free, (e) caller has no
\* reservation on the ride, (f) caller is not the driver, that fails for
\* session s, ride r and seat n in the current state; "none" when all hold.
FirstFailure(s, r, n) ==
    IF GetUser(s) = NoUser THEN LoginToReserveMsg
    ELSE IF rides[r].status # "active" THEN RideGoneMsg
    ELSE IF n \notin rides[r].available_seats THEN SeatNotOfferedMsg(n)
    ELSE IF \E id \in ConfirmedOf(r) : reservations[id].seat_number = n THEN SeatTakenMsg(n)
    ELSE IF \E id \in ConfirmedOf(r) : reservations[id].rider_id = GetUser(s) THEN AlreadyReservedMsg
    ELSE IF rides[r].driver_id = GetUser(s) THEN OwnRideMsg
    ELSE "none"

\* C11: createReservation tests its preconditions in the order (a)..(f): a
\* call that returns from its first step returns the error of the earliest
\* failing precondition, and each later step, whenever the preconditions
\* before the ones it tests hold, returns the error of the earliest failing
\* one and goes on only when those it tests hold.
C11_EarliestFailureReported ==
    [][/\ OneStep("createReservation")
            => \A s \in Sessions, r \in RideIds, n \in SeatNumbers :
                  ReserveStart(s, r, n) => returned'.err = FirstFailure(s, r, n)
       /\ \A s \in Sessions :
            (calls'[s] # calls[s] /\ calls[s].pc = "idle" /\ calls'[s].op = "createReservation")
            => FirstFailure(s, calls'[s].ride_id, calls'[s].seat_number)
                  \notin {LoginToReserveMsg, RideGoneMsg, SeatNotOfferedMsg(calls'[s].seat_number)}
       /\ \A s \in Sessions :
            (calls'[s] # calls[s] /\ calls[s].pc = "checkSeat")
            => LET ff == FirstFailure(s, calls[s].ride_id, calls[s].seat_number) IN
               IF ff = SeatTakenMsg(calls[s].seat_number)
               THEN calls'[s].pc = "idle" /\ returned'.err = ff
               ELSE ff \notin {LoginToReserveMsg, RideGoneMsg, SeatNotOfferedMsg(calls[s].seat_number)}
                    => calls'[s].pc = "checkUser"
       /\ \A s \in Sessions :
            (calls'[s] # calls[s] /\ calls[s].pc = "checkUser")
            => LET ff == FirstFailure(s, calls[s].ride_id, calls[s].seat_number) IN
               IF ff \in {AlreadyReservedMsg, OwnRideMsg}
               THEN calls'[s].pc = "idle" /\ returned'.err = ff
               ELSE ff = "none" => calls'[s].pc = "insert"]_vars

\* A call was told the seat is taken while the ride is active and every user
\* is its driver or already holds a confirmed seat on it: the caller failed
\* (d) together with (e) or (f).
C11_Witness ==
    /\ returned.op = "createReservation"
    /\ \E r \in RideIds :
          /\ rides[r].status = "active"
          /\ \E n \in rides[r].available_seats : returned.err = SeatTakenMsg(n)
          /\ \A u \in Users : \/ rides[r].driver_id = u
                              \/ \E id \in ConfirmedOf(r) : reservations[id].rider_id = u

\* C12: a createReservation that succeeds appends exactly one row (confirmed,
\* rider the caller, the requested ride and seat) and changes no other
\* reservation row and no ride row; a createReservation that fails, at any
\* step, leaves every reservation row and every ride row unchanged.
C12_OneInsertNothingElse ==
    [][/\ OneStep("createReservation")
            => (returned'.err # "none" /\ rides' = rides /\ reservations' = reservations)
       /\ \A s \in Sessions :
            (calls'[s] # calls[s] /\ (calls[s].op = "createReservation" \/ calls'[s].op = "createReservation"))
            => /\ rides' = rides
               /\ IF calls'[s].pc = "idle" /\ returned'.err = "none"
                  THEN /\ reservations' = Append(reservations,
                                                 [ride_id |-> calls[s].ride_id, rider_id |-> GetUser(s),
                                                  seat_number |-> calls[s].seat_number, status |-> "confirmed"])
                       /\ returned'.data = {Len(reservations) + 1}
                  ELSE reservations' = reservations]_vars

\* A createReservation succeeded while another row exists: the table holds
\* the older row and the new one, which is the last.
C12_Witness ==
    /\ returned.op = "createReservation"
    /\ returned.err = "none"
    /\ Len(reservations) >= 2
    /\ returned.data = {Len(reservations)}

\* C13: no reservation row is inserted for a ride whose status is not active
\* at the moment of the insert, whatever cancelRide and updateRide calls of
\* the driver interleave with createReservation.
C13_InsertOnlyOnActiveRide ==
    [][\A id \in NewRows : rides[reservations'[id].ride_id].status = "active"]_vars

C15_StatusTransitions ==
    [][/\ \A id \in ReservationIds : reservations[id].status \in {"confirmed", "cancelled", "completed"}
       /\ \A id \in NewRows : reservations'[id].status = "confirmed"
       /\ \A id \in ReservationIds :
            /\ id \in DOMAIN reservations'
            /\ reservations'[id].status # reservations[id].status
                  => /\ reservations[id].status = "confirmed"
                     /\ reservations'[id].status = "cancelled"
                     /\ OneStep("cancelReservation")]_vars

\* A row was cancelled and a later row is confirmed.
C15_Witness ==
    \E i, j \in ReservationIds :
        i < j /\ reservations[i].status = "cancelled" /\ reservations[j].status = "confirmed"

\* C16: cancelReservation returns no error only if the reservation it was
\* given exists, belongs to the caller and is cancelled after the call.
C16_NullErrorMeansCancelled ==
    [][OneStep("cancelReservation")
          => \A s \in Sessions, id \in ReservationIds \cup {0} :
                (CancelReservation(s, id) /\ returned'.err = "none")
                => /\ id \in ReservationIds
                   /\ reservations'[id].rider_id = GetUser(s)
                   /\ reservations'[id].status = "cancelled"]_vars

\* C17: a ride is created active, and a ride whose status is cancelled never
\* becomes active again and gets no new reservation row.
C17_CancelIsFinal ==
    [][/\ \A r \in RideIds : (rides[r] = NoRide /\ rides'[r] # NoRide) => rides'[r].status = "active"
       /\ \A r \in RideIds :
            rides[r].status = "cancelled"
            => /\ rides'[r].status # "active"
               /\ \A id \in NewRows : reservations'[id].ride_id # r]_vars

\* C18: an updateRide or cancelRide call by a session that is not logged in as
\* the ride's driver returns an error and changes no ride row, at whichever
\* of its steps it ends.
C18_NonDriverCannotChangeRide ==
    [][/\ (OneStep("updateRide") \/ OneStep("cancelRide"))
            => (returned'.err # "none" /\ rides' = rides)
       /\ \A s \in Sessions :
            (/\ calls'[s] # calls[s]
             /\ calls[s].pc = "update"
             /\ ~IsDriver(s, calls[s].ride_id))
            => (returned'.err # "none" /\ rides' = rides)]_vars

\* A user who does not drive the ride was turned down by updateRide or
\* cancelRide.
C18_Witness ==
    /\ returned.op \in {"updateRide", "cancelRide"}
    /\ returned.err \in {"You can only update rides you are driving", "You can only cancel rides you are driving"}
    /\ \E r \in RideIds : rides[r].status = "active"

\* C19: a reservation row is only ever created for a rider whose profile has
\* a legal first name, a legal last name, a verified phone number and a
\* profile picture.
C19_RiderMeetsPrerequisites ==
    [][\A id \in NewRows : CanUserRide(profiles[reservations'[id].rider_id])]_vars

\* C20: no owner ever has two car presets with the same license plate; a
\* createCarPreset or updateCarPreset that would give the owner a second
\* preset with a plate returns the license-plate-exists error and leaves every
\* preset unchanged; a plate that only other owners use is accepted.
C20_PlateUniquePerOwner ==
    [][/\ \A i, j \in LivePresets :
            (presets[i].user_id = presets[j].user_id /\ presets[i].license_plate = presets[j].license_plate) => i = j
       /\ returned'.op = "createCarPreset"
            => \A s \in Sessions, plate \in Plates :
                  (GetUser(s) # NoUser /\ CreateCarPreset(s, plate))
                  => IF \E id \in LivePresets : presets[id].user_id = GetUser(s) /\ presets[id].license_plate = plate
                     THEN returned'.err = DuplicatePlateMsg /\ presets' = presets
                     ELSE /\ returned'.err = "none"
                          /\ presets' = Append(presets, [user_id |-> GetUser(s), license_plate |-> plate, deleted |-> FALSE])
       /\ \A s \in Sessions, plate \in Plates :
            (/\ presetCalls[s].pc = "update"
             /\ presetCalls'[s].pc = "idle"
             /\ presetCalls[s].id \in LivePresets
             /\ presets[presetCalls[s].id].user_id = GetUser(s)
             /\ UpdateCarPresetApply(s, [kind |-> "license_plate", license_plate |-> plate, user_id |-> NoUser]))
            => IF \E id \in LivePresets \ {presetCalls[s].id} :
                     presets[id].user_id = GetUser(s) /\ presets[id].license_plate = plate
               THEN returned'.err = DuplicatePlateMsg /\ presets' = presets
               ELSE /\ returned'.err = "none"
                    /\ presets' = [presets EXCEPT ![presetCalls[s].id].license_plate = plate]]_vars

\* A duplicate was turned down while two owners hold presets with one plate.
C20_Witness ==
    /\ returned.err = DuplicatePlateMsg
    /\ \E i, j \in LivePresets :
          presets[i].user_id # presets[j].user_id /\ presets[i].license_plate = presets[j].license_plate

\* C21: every ride created through RideForm and createRide has an
\* available_seats list that is non-empty, has no duplicates, does not contain
\* seat 1 (the driver's seat) and holds only integers from 2 to 20, also when
\* the list was pre-filled from the selected car preset's default seats.
C21_RideSeatsWellFormed ==
    \A id \in DOMAIN rideSeats :
        LET seats == rideSeats[id].available_seats IN
        /\ Len(seats) >= 1
        /\ \A j, k \in DOMAIN seats : j # k => seats[j] # seats[k]
        /\ ~Includes(seats, 1)
        /\ \A k \in DOMAIN seats : seats[k] \in 2..MaxSeatNumber

\* A ride was created whose seats are the chosen preset's default seats, and
\* RideForm is open again with a seat toggled off those defaults.
C21_Witness ==
    /\ \E id \in DOMAIN rideSeats :
          /\ rideSeats[id].car_preset_id \in DOMAIN presetSeats
          /\ rideSeats[id].available_seats =
                 presetSeats[rideSeats[id].car_preset_id].default_available_seats
          /\ Len(rideSeats[id].available_seats) >= 2
    /\ rideForm.open
    /\ rideForm.car_preset_id # 0
    /\ rideForm.selectedSeats # rideForm.carPresets[rideForm.car_preset_id].default_available_seats

\* C22: RouteGuard renders its children only when loading is false and a user
\* is authenticated; when loading is false and there is no user it renders
\* nothing and has issued a redirect; while loading is true it renders no
\* children and issues no redirect.
C22_GuardRendersOnlyWhenAuthenticated ==
    \A i \in GuardHooks :
        guard[i].output # "none" =>
            LET user == guard[i].deps[1]
                loading == guard[i].deps[2]
            IN  /\ guard[i].output = "children" => ~loading /\ user # NoUser
                /\ (~loading /\ user = NoUser) => guard[i].output = "null" /\ guard[i].redirected
                /\ loading => guard[i].output \in {"spinner", "null"} /\ ~guard[i].redirected

\* RouteGuard, mounted for the second time, shows its children to a signed-in
\* user whose state it has rendered.
C22_Witness ==
    \E i \in GuardHooks :
        /\ guard[i].output = "children"
        /\ hooks[i].mounts = 2
        /\ guard[i].deps = <<hooks[i].user, hooks[i].loading>>

\* C23: at most one auth-state-change subscription exists, whatever mounts,
\* unmounts and re-mounts of useAuth happened; every mounted instance has
\* exactly one registered callback, an unmounted one has none, and no step
\* calls a callback of an unmounted instance.
C23_OneSubscriptionOneCallback ==
    LET live == {CallbackOf(i) : i \in {j \in HookIds : hooks[j].mounted}} IN
    /\ manager.subscription <= 1
    /\ manager.callbacks = live
    /\ manager.invoked \subseteq live

\* The listener exists, one instance is mounted for the second time beside
\* another one, and a notification has just called both callbacks.
C23_Witness ==
    /\ manager.subscription = 1
    /\ \E i \in HookIds : hooks[i].mounted /\ hooks[i].mounts = 2
    /\ \A i \in HookIds : hooks[i].mounted
    /\ Cardinality(manager.invoked) = MaxHooks

\* C24: every mounted useAuth instance holds the AuthManager's current user,
\* profile, loading and error (a notification is one step here, so none is in
\* progress in any state).
C24_InstancesMatchManager ==
    \A i \in HookIds :
        hooks[i].mounted =>
            HookState(hooks[i]) = <<manager.currentUser, manager.currentProfile,
                                    manager.isLoading, manager.error>>

\* C25: after signIn, signUp, signOut or signInWithGoogle set loading to true
\* on an instance, the loading of that instance becomes false again (or the
\* instance is gone), whether the call fails or succeeds.
C25_LoadingEnds ==
    \A i \in HookIds :
        (hooks[i].mounted /\ hooks[i].call # "none") ~> (~hooks[i].loading \/ ~hooks[i].mounted)

\* C26: every state delivered to a callback has a profile only with a user,
\* and that profile is the user's own.
C26_DeliveredProfileBelongsToUser ==
    \A i \in HookIds :
        hooks[i].profile # NoProfile =>
            hooks[i].user # NoUser /\ hooks[i].profile = hooks[i].user

\* C27: every foreign key names an existing row (a ride's event, driver and
\* car preset, a reservation's ride and rider, an event's creator unless
\* NULL); when deleteEvent returns without error, no ride of that event and
\* no reservation on such a ride remains; and a step that deletes a ride or
\* a profile leaves no reservation of that ride or of that rider.
C27_ReferencesAndCascades ==
    [][(db' # db \/ eventReturned' # eventReturned) =>
        LET d == db'
            liveRides == LiveIds(d.rides)
            liveRes == LiveIds(d.ride_reservations)
        IN  /\ \A e \in LiveIds(d.events) :
                  d.events[e].created_by # NoUser => d.profiles[d.events[e].created_by]
            /\ \A p \in LiveIds(d.car_presets) : d.profiles[d.car_presets[p].user_id]
            /\ \A r \in liveRides :
                  /\ d.rides[r].event_id \in LiveIds(d.events)
                  /\ d.profiles[d.rides[r].driver_id]
                  /\ d.rides[r].car_preset_id \in LiveIds(d.car_presets)
            /\ \A r \in liveRes :
                  /\ d.ride_reservations[r].ride_id \in liveRides
                  /\ d.profiles[d.ride_reservations[r].rider_id]
            /\ (\E s \in DbUsers : eventCalls[s].pc = "delete" /\ eventCalls'[s].pc = "idle")
               /\ eventReturned'.err = "none"
               => /\ \A r \in liveRides : d.rides[r].event_id # eventReturned'.id
                  /\ \A r \in liveRes :
                        d.rides[d.ride_reservations[r].ride_id].event_id # eventReturned'.id
            /\ \A k \in LiveIds(db.rides) \ liveRides :
                  \A r \in liveRes : d.ride_reservations[r].ride_id # k
            /\ \A u \in DbUsers : db.profiles[u] /\ ~d.profiles[u]
                  => \A r \in liveRes : d.ride_reservations[r].rider_id # u
      ]_vars

====
